---- MODULE Spec2Model ----
(***************************************************************************)
(* Model of the traffic back end: the directional pipeline detect_cars     *)
(* (src/yolov4.py) and the activity handlers of src/app.py.                *)
(*                                                                         *)
(* Time is the wall clock time.time() on a grid of whole seconds.  A       *)
(* metric is an exact rational [num, den] in lowest terms (np.mean is a    *)
(* float division; the model keeps it exact).  Indices of count sequences  *)
(* are the 0-based indices of the Python lists.                            *)
(***************************************************************************)
EXTENDS FiniteSets, Integers, Sequences, TLC

\* ---------------------------------------------------------------- bounds
MaxFrames == 3      \* frames of one video in a stepwise pipeline run
MaxDet    == 2      \* detections reported for one frame
MaxTick   == 2      \* the clock takes the values 0, TimeStep, .., MaxTick*TimeStep
TimeStep  == 20     \* seconds between two clock values of the grid
MaxLen    == 6      \* length of a finalized count sequence (peak estimation)
MaxCount  == 2      \* largest per-frame count in a finalized count sequence

\* ------------------------------------------------------- program constants
Window == 30        \* "current_time - 30"

Times == {k * TimeStep : k \in 0..MaxTick}

\* Sequences over S of length lo..hi.
SeqsOf(S, lo, hi) == UNION {[1..n -> S] : n \in lo..hi}

\* ------------------------------------------------------------ rationals
RECURSIVE Gcd(_, _)
Gcd(a, b) == IF b = 0 THEN a ELSE Gcd(b, a % b)

Abs(n) == IF n < 0 THEN -n ELSE n

\* n / d, d > 0, in lowest terms.
Rat(n, d) == LET g == Gcd(Abs(n), d) IN [num |-> n \div g, den |-> d \div g]

Zero     == Rat(0, 1)       \* "else 0"
Sentinel == Rat(-1, 1)      \* "return -1"

RECURSIVE SumSeq(_)
SumSeq(s) == IF s = << >> THEN 0 ELSE Head(s) + SumSeq(Tail(s))

\* x[i] of a Python list held as a TLA+ sequence.
At(x, i) == x[i + 1]

\* ------------------------------------------------ the trailing window
\* Faulty variant: every stale sample is dropped, wherever it stands.
Evict_filter(q, now) ==
    LET Fresh(sample) == ~(sample[1] < now - Window) IN SelectSeq(q, Fresh)

\* car_counts.popleft() while the head is older than current_time - 30.
RECURSIVE Evict(_, _)
Evict(q, now) ==
    IF q # << >> /\ Head(q)[1] < now - Window
    THEN Evict(Tail(q), now)
    ELSE q

\* car_counts.append((current_time, car_count)), then the eviction loop.
Observe(q, now, count) == Evict(Append(q, <<now, count>>), now)

\* [count for _, count in car_counts]
CountValues(q) == [i \in 1..Len(q) |-> q[i][2]]

\* ------------------------------------------------------ peak estimation
\* scipy.signal.find_peaks(x) without conditions is _local_maxima_1d(x):
\* the inner loop that walks to the end of a plateau.
RECURSIVE PlateauEnd(_, _, _)
PlateauEnd(x, i, i_ahead) ==
    IF i_ahead < Len(x) - 1 /\ At(x, i_ahead) = At(x, i)
    THEN PlateauEnd(x, i, i_ahead + 1)
    ELSE i_ahead

RECURSIVE LocalMaxima1d(_, _)
LocalMaxima1d(x, i) ==
    IF ~(i < Len(x) - 1) THEN << >>
    ELSE IF At(x, i - 1) < At(x, i)
         THEN LET i_ahead == PlateauEnd(x, i, i + 1) IN
              IF At(x, i_ahead) < At(x, i)
              THEN <<(i + (i_ahead - 1)) \div 2>> \o LocalMaxima1d(x, i_ahead + 1)
              ELSE LocalMaxima1d(x, i + 1)
         ELSE LocalMaxima1d(x, i + 1)

\* Faulty variant: only single-sample peaks, a plateau is never a peak.
RECURSIVE StrictMaxima1d(_, _)
StrictMaxima1d(x, i) ==
    IF ~(i < Len(x) - 1) THEN << >>
    ELSE IF At(x, i - 1) < At(x, i) /\ At(x, i + 1) < At(x, i)
         THEN <<i>> \o StrictMaxima1d(x, i + 1)
         ELSE StrictMaxima1d(x, i + 1)

find_peaks_strict(x) == StrictMaxima1d(x, 1)

find_peaks(x) == LocalMaxima1d(x, 1)

\* Faulty variant: no peak is reported as the failure sentinel.
MeanPeakValue_sentinel(x, pk) ==
    IF Len(pk) > 0
    THEN Rat(SumSeq([k \in 1..Len(pk) |-> At(x, pk[k])]), Len(pk))
    ELSE Rat(-1, 1)

\* Faulty variant: the sum of the peak values, not their mean.
MeanPeakValue_sum(x, pk) ==
    IF Len(pk) > 0
    THEN Rat(SumSeq([k \in 1..Len(pk) |-> At(x, pk[k])]), 1)
    ELSE Rat(0, 1)

\* np.mean([car_count_values[i] for i in peaks]) if peaks.size > 0 else 0
MeanPeakValue(x, pk) ==
    IF Len(pk) > 0
    THEN Rat(SumSeq([k \in 1..Len(pk) |-> At(x, pk[k])]), Len(pk))
    ELSE Zero

\* ------------------------------------------------------------- vocabulary
\* Contents of classes.txt the model considers, one name per line.
ClassFiles == {<<"car">>, <<"person", "car">>, <<"person">>}

\* Class ids the detector may report (0-based, as OpenCV reports them).
ClassIds == 0..1

\* Exceptions the pipeline's calls raise; all are subclasses of Exception.
Raised == {"ValueError", "FileNotFoundError", "IndexError", "cv.error"}

\* Faulty variant: the handler catches the two exceptions the code raises itself only.
Caught_own == {"ValueError", "FileNotFoundError"}

\* "except Exception as e": the exception classes the handler catches.
Caught == Raised

\* Unset value (an unbound local, None).
None == [num |-> 0, den |-> 0]

\* sum(1 for classid in classes if class_name[classid] == "car");
\* class_name[classid] raises IndexError past the end of the list.
IndexOk(names, classes) == \A k \in 1..Len(classes) : classes[k] < Len(names)

\* Faulty variant: every detection counts, whatever its class.
CarCount_all(names, classes) == Len(classes)

CarCount(names, classes) ==
    Cardinality({k \in 1..Len(classes) : At(names, classes[k]) = "car"})

\* ------------------------------------------------ state of one pipeline run
VARIABLES
    classes_txt,        \* lines of classes.txt
    d_pc,               \* position of the run in detect_cars
    class_name,         \* the loaded vocabulary
    backend,            \* "none", "cuda" or "cpu"
    cap,                \* "none", "closed" (not opened), "open", "released"
    frame_counter,
    car_counts,         \* the deque of <<timestamp, count>>
    current_time,
    car_count_values,
    peaks,
    mean_peak_value,
    exc,                \* the exception raised in the try block, or "none"
    ret                 \* the value returned, None before the return

pipe == <<d_pc, class_name, backend, cap, frame_counter, car_counts,
          current_time, car_count_values, peaks, mean_peak_value, exc, ret>>

\* ------------------------------------------------- state of the web server
VARIABLES
    activities,         \* the list of activity records
    recent_activities,  \* the list of log entries
    users,              \* the set of user ids
    disk,               \* the files under uploads/: <<activity id,
                        \* direction, position in the upload>>
    req                 \* per request in flight: its handler's locals

app == <<activities, recent_activities, users, disk, req>>

vars == <<classes_txt, pipe, app>>

\* The upload request of a slot that serves none.
NoUpload == [has_videos |-> FALSE, has_user |-> FALSE, videos |-> << >>]

\* A request slot with no request in it.  Besides the handler's locals it
\* keeps the request (upload), the list the optimizer was called with
\* (opt_arg) and the body of the response of a reading handler (body).
Idle == [op |-> "idle", pc |-> "idle", aid |-> 0, num_cars_list |-> << >>,
         runs |-> << >>, result |-> "None", response |-> 0,
         upload |-> NoUpload, opt_arg |-> << >>, body |-> << >>]

\* The module state of app.py after import, lines 23-25.
AppInit ==
    /\ activities = << >>
    /\ recent_activities = << >>
    /\ users = {}
    /\ disk = {}

\* No request is being served (the pipeline is looked at on its own).
NoRequests == req = [r \in {"r1"} |-> Idle]


\* A raise inside the try block: control goes to the except clause.
Raise(e) == /\ exc' = e
            /\ d_pc' = "except"

PipeInit ==
    /\ d_pc = "start"
    /\ class_name = << >>
    /\ backend = "none"
    /\ cap = "none"
    /\ frame_counter = 0
    /\ car_counts = << >>
    /\ current_time = 0
    /\ car_count_values = << >>
    /\ peaks = << >>
    /\ mean_peak_value = None
    /\ exc = "none"
    /\ ret = None

\* Lines 14-19: read classes.txt, require "car".
LoadClasses ==
    /\ d_pc = "start"
    /\ class_name' = classes_txt
    /\ IF \E k \in 1..Len(classes_txt) : classes_txt[k] = "car"
       THEN d_pc' = "model" /\ exc' = exc
       ELSE Raise("ValueError")
    /\ UNCHANGED app
    /\ UNCHANGED <<classes_txt, backend, cap, frame_counter, car_counts,
                   current_time, car_count_values, peaks, mean_peak_value, ret>>

\* Lines 22-34: readNet, CUDA with fallback to CPU, DetectionModel.
LoadModel ==
    /\ d_pc = "model"
    /\ \/ /\ \E b \in {"cuda", "cpu"} : backend' = b
          /\ d_pc' = "open"
          /\ exc' = exc
       \/ /\ Raise("cv.error")
          /\ backend' = backend
    /\ UNCHANGED app
    /\ UNCHANGED <<classes_txt, class_name, cap, frame_counter, car_counts,
                   current_time, car_count_values, peaks, mean_peak_value, ret>>

\* Lines 37-45: VideoCapture, isOpened, the empty deque.
OpenVideo ==
    /\ d_pc = "open"
    /\ \E openable \in BOOLEAN :
          IF openable
          THEN /\ cap' = "open"
               /\ d_pc' = "read"
               /\ exc' = exc
          ELSE /\ cap' = "closed"
               /\ Raise("FileNotFoundError")
    /\ frame_counter' = 0
    /\ car_counts' = << >>
    /\ UNCHANGED app
    /\ UNCHANGED <<classes_txt, class_name, backend, current_time,
                   car_count_values, peaks, mean_peak_value, ret>>

\* Faulty variant: the loop has no exit for the end of the stream.
ReadFrame_endless ==
    /\ d_pc = "read"
    /\ frame_counter < MaxFrames
    /\ \/ /\ frame_counter' = frame_counter + 1
          /\ d_pc' = "detect"
          /\ exc' = exc
       \/ /\ Raise("cv.error")
          /\ UNCHANGED frame_counter
    /\ UNCHANGED app
    /\ UNCHANGED <<classes_txt, class_name, backend, cap, car_counts,
                   current_time, car_count_values, peaks, mean_peak_value, ret>>

\* Lines 48-52: cap.read(); no frame ends the loop.
ReadFrame ==
    /\ d_pc = "read"
    /\ \/ /\ d_pc' = "estimate"
          /\ UNCHANGED <<frame_counter, exc>>
       \/ /\ frame_counter < MaxFrames
          /\ frame_counter' = frame_counter + 1
          /\ d_pc' = "detect"
          /\ exc' = exc
       \/ /\ frame_counter < MaxFrames
          /\ Raise("cv.error")
          /\ UNCHANGED frame_counter
    /\ UNCHANGED app
    /\ UNCHANGED <<classes_txt, class_name, backend, cap, car_counts,
                   current_time, car_count_values, peaks, mean_peak_value, ret>>

\* Lines 55-66: detect, count the cars, append the sample, evict.
DetectFrame ==
    /\ d_pc = "detect"
    /\ \/ /\ Raise("cv.error")
          /\ UNCHANGED <<car_counts, current_time>>
       \/ \E classes \in SeqsOf(ClassIds, 0, MaxDet) :
             IF IndexOk(class_name, classes)
             THEN \E now \in Times :
                     /\ current_time' = now
                     /\ car_counts' = Observe(car_counts, now,
                                              CarCount(class_name, classes))
                     /\ d_pc' = "read"
                     /\ exc' = exc
             ELSE /\ Raise("IndexError")
                  /\ UNCHANGED <<car_counts, current_time>>
    /\ UNCHANGED app
    /\ UNCHANGED <<classes_txt, class_name, backend, cap, frame_counter,
                   car_count_values, peaks, mean_peak_value, ret>>

\* Lines 69-75: the count values, their peaks, the mean of the peak values.
Estimate ==
    /\ d_pc = "estimate"
    /\ car_count_values' = CountValues(car_counts)
    /\ peaks' = find_peaks(CountValues(car_counts))
    /\ mean_peak_value' = MeanPeakValue(CountValues(car_counts),
                                        find_peaks(CountValues(car_counts)))
    /\ d_pc' = "release"
    /\ UNCHANGED app
    /\ UNCHANGED <<classes_txt, class_name, backend, cap, frame_counter,
                   car_counts, current_time, exc, ret>>

\* Lines 78-80: cap.release() and the return of the metric.
ReleaseAndReturn ==
    /\ d_pc = "release"
    /\ cap' = "released"
    /\ ret' = mean_peak_value
    /\ d_pc' = "returned"
    /\ UNCHANGED app
    /\ UNCHANGED <<classes_txt, class_name, backend, frame_counter, car_counts,
                   current_time, car_count_values, peaks, mean_peak_value, exc>>

\* Faulty variant: the except clause returns 0.
Except_zero ==
    /\ d_pc = "except"
    /\ IF exc \in Caught
       THEN ret' = Zero /\ d_pc' = "returned"
       ELSE ret' = ret /\ d_pc' = "propagated"
    /\ UNCHANGED app
    /\ UNCHANGED <<classes_txt, class_name, backend, cap, frame_counter,
                   car_counts, current_time, car_count_values, peaks,
                   mean_peak_value, exc>>

\* Lines 82-84: the except clause returns -1; an exception it does not
\* catch leaves detect_cars.
Except ==
    /\ d_pc = "except"
    /\ IF exc \in Caught
       THEN ret' = Sentinel /\ d_pc' = "returned"
       ELSE ret' = ret /\ d_pc' = "propagated"
    /\ UNCHANGED app
    /\ UNCHANGED <<classes_txt, class_name, backend, cap, frame_counter,
                   car_counts, current_time, car_count_values, peaks,
                   mean_peak_value, exc>>

\* One run of detect_cars, step by step.
InitPipe == classes_txt \in ClassFiles /\ PipeInit /\ AppInit /\ NoRequests

NextPipe == \/ LoadClasses
            \/ LoadModel
            \/ OpenVideo
            \/ ReadFrame
            \/ DetectFrame
            \/ Estimate
            \/ ReleaseAndReturn
            \/ Except

SpecPipe == InitPipe /\ [][NextPipe]_vars

\* Count sequences the specification quotes as examples.
ExampleSeqs == {<<1, 3, 2, 5, 2>>, <<1, 2, 3, 4, 5>>}

\* Peak estimation alone: the loop has ended with some window of samples.
InitPeaks ==
    /\ AppInit
    /\ NoRequests
    /\ classes_txt = <<"car">>
    /\ d_pc = "estimate"
    /\ class_name = <<"car">>
    /\ backend = "cpu"
    /\ cap = "open"
    /\ \E x \in SeqsOf(0..MaxCount, 0, MaxLen) \cup ExampleSeqs :
          /\ car_counts = [i \in 1..Len(x) |-> <<0, x[i]>>]
          /\ frame_counter = Len(x)
    /\ current_time = 0
    /\ car_count_values = << >>
    /\ peaks = << >>
    /\ mean_peak_value = None
    /\ exc = "none"
    /\ ret = None

NextPeaks == Estimate \/ ReleaseAndReturn

SpecPeaks == InitPeaks /\ [][NextPeaks]_vars

\* ======================================================================
\* detect_cars as one call, for the handlers of app.py
\* ======================================================================
\* What one run meets: whether the model loads, whether the video opens,
\* and for each frame cap.read() delivers either an error or the detected
\* class ids together with the clock value read after the detection.
MaxAppFrames == 3      \* frames of one video in a whole-call run

OkFrame(classes, t) == [kind |-> "ok", classes |-> classes, t |-> t]
BadFrame(k)         == [kind |-> k, classes |-> << >>, t |-> 0]

\* Per frame: nothing detected, one object of class 0 or of class 1, at the
\* first or at the last clock value; or the read or the detection fails.
AppFrames ==
    {OkFrame(c, t) : c \in {<< >>, <<0>>, <<1>>},
                     t \in {0, MaxTick * TimeStep}}
    \cup {BadFrame("read_error"), BadFrame("detect_error")}

AppInputs ==
    {[model_ok |-> TRUE, openable |-> TRUE, frames |-> fs] :
        fs \in SeqsOf(AppFrames, 0, MaxAppFrames)}
    \cup {[model_ok |-> FALSE, openable |-> TRUE, frames |-> << >>],
          [model_ok |-> TRUE, openable |-> FALSE, frames |-> << >>]}

HasCar(names) == \E k \in 1..Len(names) : names[k] = "car"

\* What a run met, told from its input alone: something in it fails (the
\* vocabulary, the model, the opening, the reading or detection of a frame)...
InputFails(file, in) ==
    \/ ~HasCar(file)
    \/ ~in.model_ok
    \/ ~in.openable
    \/ \E k \in 1..Len(in.frames) :
          \/ in.frames[k].kind # "ok"
          \/ \E j \in 1..Len(in.frames[k].classes) :
                in.frames[k].classes[j] >= Len(file)

\* ...or every frame is read and detected with no detection of a car.
ZeroDetections(file, in) ==
    /\ in.model_ok
    /\ in.openable
    /\ \A k \in 1..Len(in.frames) :
          /\ in.frames[k].kind = "ok"
          /\ \A j \in 1..Len(in.frames[k].classes) :
                /\ in.frames[k].classes[j] < Len(file)
                /\ At(file, in.frames[k].classes[j]) # "car"

\* The while loop of lines 47-66 over the frames of the video: the deque at
\* the end of the stream, or the exception that ended the loop.
RECURSIVE Stream(_, _, _)
Stream(names, frames, q) ==
    IF frames = << >> THEN [exc |-> "none", q |-> q]
    ELSE LET f == Head(frames) IN
         IF f.kind # "ok" THEN [exc |-> "cv.error", q |-> q]
         ELSE IF ~IndexOk(names, f.classes) THEN [exc |-> "IndexError", q |-> q]
         ELSE Stream(names, Tail(frames),
                     Observe(q, f.t, CarCount(names, f.classes)))

\* The try block of detect_cars: the exception it raises ("none" if it
\* runs to the return), the state of the capture and the metric.
TryBlock(file, in) ==
    IF ~HasCar(file)
    THEN [exc |-> "ValueError", cap |-> "none", value |-> None]
    ELSE IF ~in.model_ok
    THEN [exc |-> "cv.error", cap |-> "none", value |-> None]
    ELSE IF ~in.openable
    THEN [exc |-> "FileNotFoundError", cap |-> "closed", value |-> None]
    ELSE LET s == Stream(file, in.frames, << >>)
             x == CountValues(s.q)
         IN  IF s.exc # "none"
             THEN [exc |-> s.exc, cap |-> "open", value |-> None]
             ELSE [exc |-> "none", cap |-> "released",
                   value |-> MeanPeakValue(x, find_peaks(x))]

\* detect_cars(video_file): the value returned (ret), or the exception that
\* leaves the function (raised), and the capture it leaves behind.
DetectCars(file, in) ==
    LET b == TryBlock(file, in) IN
    IF b.exc = "none"
    THEN [ret |-> b.value, raised |-> "none", exc |-> "none", cap |-> b.cap]
    ELSE IF b.exc \in Caught
    THEN [ret |-> Sentinel, raised |-> "none", exc |-> b.exc, cap |-> b.cap]
    ELSE [ret |-> None, raised |-> b.exc, exc |-> b.exc, cap |-> b.cap]

\* ======================================================================
\* The handlers of app.py
\* ======================================================================
MaxActs == 1            \* uploads accepted (activity ids 1..MaxActs)

Directions == <<"north", "south", "east", "west">>
DirSet     == {"north", "south", "east", "west"}

ALLOWED_EXTENSIONS == {"mp4", "avi", "mov"}

UserIds == {"u1"}

\* Timing plans the optimizer returns; "None" is Python's None.
Plans == {"plan_a", "plan_b"}

NoCounts == [d \in DirSet |-> None]     \* "trafficCounts": None

\* A file name as its dot-separated parts: <<"clip", "MP4">> is clip.MP4.
FileNames == {<<"clip", "MOV">>, <<"clip", "mp4", "txt">>}
OddNames  == {<<"mp4">>, << >>}

Lower(w) == CASE w = "MOV" -> "mov"
              [] w = "MP4" -> "mp4"
              [] w = "AVI" -> "avi"
              [] OTHER -> w

\* "." in filename and filename.rsplit(".", 1)[1].lower() in ALLOWED_EXTENSIONS
allowed_file(filename) ==
    /\ Len(filename) >= 2
    /\ Lower(filename[Len(filename)]) \in ALLOWED_EXTENSIONS

\* "video and ...": a FileStorage without a file name is falsy.
Truthy(filename) == filename # << >>

\* Index of the activity the loop "for activity in activities" stops at:
\* the first one with this id that is pending; 0 if there is none.
FirstPending(aid) ==
    LET S == {k \in 1..Len(activities) :
                 activities[k].id = aid /\ activities[k].status = "pending"}
    IN  IF S = {} THEN 0 ELSE CHOOSE k \in S : \A j \in S : k <= j

LogEntry(action, aid, user) == [action |-> action, aid |-> aid, user |-> user]

\* The files video.save has written when the loop of lines 53-61 is at
\* position n: <activity_id>/<direction>.mp4 for the positions before n.
Saved(activity_id, n) ==
    {<<activity_id, Directions[i], i>> : i \in 1..(n - 1)}

\* Faulty variant: the folder is left behind.
rmtree_none(files, activity_id) == files

\* shutil.rmtree(activity_folder)
rmtree(files, activity_id) == {f \in files : f[1] # activity_id}

\* The first position whose file fails "video and allowed_file(...)", 0 if
\* all four pass.
FirstBad(videos) ==
    LET B == {i \in 1..Len(videos) :
                 ~(Truthy(videos[i]) /\ allowed_file(videos[i]))}
    IN  IF B = {} THEN 0 ELSE CHOOSE i \in B : \A j \in B : i <= j

\* upload_files, lines 36-85.  The request carries the videos field or not,
\* the userId field or not, and the file names of the videos.  The new id
\* (uuid4) is one no activity has.
upload_files(r, has_videos, has_user, user_id, videos) ==
    LET u == [has_videos |-> has_videos, has_user |-> has_user,
              videos |-> videos]
        Reply(code) ==
            req' = [req EXCEPT ![r] = [Idle EXCEPT !.op = "upload",
                        !.pc = "done", !.response = code, !.upload = u]]
        activity_id == Len(activities) + 1
    IN
    /\ req[r].pc = "idle"
    /\ IF ~has_videos \/ ~has_user
       THEN /\ Reply(400)
            /\ UNCHANGED <<activities, recent_activities, users, disk>>
       ELSE IF Len(videos) # 4
       THEN /\ Reply(400)
            /\ UNCHANGED <<activities, recent_activities, users, disk>>
       ELSE IF FirstBad(videos) # 0
       THEN /\ disk' = rmtree(disk \cup Saved(activity_id, FirstBad(videos)),
                              activity_id)
            /\ Reply(400)
            /\ UNCHANGED <<activities, recent_activities, users>>
       ELSE /\ Len(activities) < MaxActs
            /\ disk' = disk \cup Saved(activity_id, 5)
            /\ users' = users \cup {user_id}
            /\ activities' = Append(activities,
                   [id |-> activity_id, userId |-> user_id,
                    status |-> "pending", result |-> "None",
                    trafficCounts |-> NoCounts])
            /\ recent_activities' = Append(recent_activities,
                   LogEntry("uploaded", activity_id, user_id))
            /\ Reply(201)
    /\ UNCHANGED <<classes_txt, pipe>>

\* The upload requests considered: every list of four names that are good
\* or have a disallowed extension, a good list with a name without a dot or
\* an empty name at one position, a list of three and of five good names,
\* and a request without the videos field or without the userId field.
GoodName == <<"clip", "MOV">>

UploadRequests ==
    {[has_videos |-> TRUE, has_user |-> TRUE, videos |-> v] :
        v \in SeqsOf(FileNames, 4, 4)
              \cup {[i \in 1..4 |-> IF i = k THEN n ELSE GoodName] :
                       k \in 1..4, n \in OddNames}
              \cup {[i \in 1..3 |-> GoodName], [i \in 1..5 |-> GoodName]}}
    \cup {[has_videos |-> FALSE, has_user |-> TRUE, videos |-> << >>],
          [has_videos |-> TRUE, has_user |-> FALSE,
           videos |-> [i \in 1..4 |-> GoodName]]}

Upload(r) ==
    \E u \in UploadRequests, user_id \in UserIds :
        upload_files(r, u.has_videos, u.has_user, user_id, u.videos)

\* approve_activity, lines 96-97 and 123: look for the pending activity.
ApproveBegin(r, activity_id) ==
    /\ req[r].pc = "idle"
    /\ req' = [req EXCEPT ![r] =
          IF FirstPending(activity_id) # 0
          THEN [Idle EXCEPT !.op = "approve", !.aid = activity_id,
                            !.pc = "detect"]
          ELSE [Idle EXCEPT !.op = "approve", !.aid = activity_id,
                            !.pc = "done", !.response = 404]]
    /\ UNCHANGED <<activities, recent_activities, users, disk, classes_txt, pipe>>

\* One call detect_cars(video) as the coordinator sees it: the value it
\* returns or the exception it lets out, with what the run met (fails, zero)
\* and whether it opened the capture.
RunOf(file, in) ==
    LET out == DetectCars(file, in) IN
    [ret |-> out.ret, raised |-> out.raised,
     opened |-> out.cap \in {"open", "released"},
     fails |-> InputFails(file, in), zero |-> ZeroDetections(file, in)]

\* The calls that can happen, per vocabulary file.
Runs == [file \in ClassFiles |-> {RunOf(file, in) : in \in AppInputs}]

\* video_paths[k - 1]: the file of the k-th direction in the activity's
\* folder, and the position in the upload of the file stored there.
VideoPath(activity_id, k) == <<activity_id, Directions[k]>>

FileAt(path) == CHOOSE i \in 1..4 : <<path[1], path[2], i>> \in disk

\* What is kept of the call the request makes next: the file it is given
\* and what the run met.
RunNote(r, run) ==
    LET path == VideoPath(req[r].aid, Len(req[r].num_cars_list) + 1) IN
    [path |-> path[2], src |-> FileAt(path),
     opened |-> run.opened, fails |-> run.fails, zero |-> run.zero]

\* Faulty variant: a direction that returns -1 ends the request with an error.
ApproveDetect_abort(r, run) ==
    /\ req[r].pc = "detect"
    /\ Len(req[r].num_cars_list) < 4
    /\ IF run.raised # "none" \/ run.ret = Sentinel
       THEN req' = [req EXCEPT ![r].pc = "done", ![r].response = 500]
       ELSE req' = [req EXCEPT
               ![r].num_cars_list = Append(@, run.ret),
               ![r].runs = Append(@, RunNote(r, run)),
               ![r].pc = IF Len(req[r].num_cars_list) = 3
                         THEN "optimize" ELSE "detect"]
    /\ UNCHANGED <<activities, recent_activities, users, disk, classes_txt, pipe>>

\* Faulty variant: a direction that returned -1 is run again.
ApproveDetect_retry(r, run) ==
    /\ req[r].pc = "detect"
    /\ Len(req[r].num_cars_list) < 4
    /\ Len(req[r].runs) < 5
    /\ IF run.raised # "none"
       THEN req' = [req EXCEPT ![r].pc = "done", ![r].response = 500]
       ELSE IF run.ret = Sentinel /\ Len(req[r].runs) = Len(req[r].num_cars_list)
       THEN req' = [req EXCEPT ![r].runs = Append(@, RunNote(r, run))]
       ELSE req' = [req EXCEPT
               ![r].num_cars_list = Append(@, run.ret),
               ![r].runs = Append(@, RunNote(r, run)),
               ![r].pc = IF Len(req[r].num_cars_list) = 3
                         THEN "optimize" ELSE "detect"]
    /\ UNCHANGED <<activities, recent_activities, users, disk, classes_txt, pipe>>

\* Line 102, one element of the list comprehension: detect_cars on the next
\* direction's video.  runs keeps what that run met and left behind.
ApproveDetect(r, run) ==
    /\ req[r].pc = "detect"
    /\ Len(req[r].num_cars_list) < 4
    /\ IF run.raised # "none"
       THEN req' = [req EXCEPT ![r].pc = "done", ![r].response = 500]
       ELSE req' = [req EXCEPT
               ![r].num_cars_list = Append(@, run.ret),
               ![r].runs = Append(@, RunNote(r, run)),
               ![r].pc = IF Len(req[r].num_cars_list) = 3
                         THEN "optimize" ELSE "detect"]
    /\ UNCHANGED <<activities, recent_activities, users, disk, classes_txt, pipe>>

\* Line 103: optimize_traffic(num_cars_list) returns a plan or raises; an
\* exception leaves the handler and the caller gets a server error.  The
\* record of the four runs ends with the call that consumes their values.
optimize_traffic(num_cars_list) == Plans \cup {"raise"}

\* Faulty variant: the status is written before the optimizer is called.
ApproveOptimize_statusFirst(r) ==
    /\ req[r].pc = "optimize"
    /\ activities' = [activities EXCEPT
          ![CHOOSE k \in 1..Len(activities) : activities[k].id = req[r].aid]
              .status = "approved"]
    /\ \E o \in optimize_traffic(req[r].num_cars_list) :
          IF o = "raise"
          THEN req' = [req EXCEPT ![r].pc = "done", ![r].response = 500,
                                  ![r].opt_arg = req[r].num_cars_list]
          ELSE req' = [req EXCEPT ![r].pc = "write", ![r].result = o,
                                  ![r].opt_arg = req[r].num_cars_list,
                                  ![r].runs = << >>]
    /\ UNCHANGED <<recent_activities, users, disk, classes_txt, pipe>>

ApproveOptimize(r) ==
    /\ req[r].pc = "optimize"
    /\ \E o \in optimize_traffic(req[r].num_cars_list) :
          IF o = "raise"
          THEN req' = [req EXCEPT ![r].pc = "done", ![r].response = 500,
                                  ![r].opt_arg = req[r].num_cars_list]
          ELSE req' = [req EXCEPT ![r].pc = "write", ![r].result = o,
                                  ![r].opt_arg = req[r].num_cars_list,
                                  ![r].runs = << >>]
    /\ UNCHANGED <<activities, recent_activities, users, disk, classes_txt, pipe>>

\* The activity object the handler holds (found by ApproveBegin); activities
\* are never removed, so it is still the first one with this id.
Held(r) == CHOOSE k \in 1..Len(activities) : activities[k].id = req[r].aid

\* Faulty variant: east and west are taken from each other's position.
ApproveWrite_swapped(r) ==
    /\ req[r].pc = "write"
    /\ activities' = [activities EXCEPT
          ![Held(r)].status = "approved",
          ![Held(r)].result = req[r].result,
          ![Held(r)].trafficCounts =
              [north |-> req[r].num_cars_list[1],
               south |-> req[r].num_cars_list[2],
               east  |-> req[r].num_cars_list[4],
               west  |-> req[r].num_cars_list[3]]]
    /\ recent_activities' = Append(recent_activities,
          LogEntry("approved", req[r].aid, activities[Held(r)].userId))
    /\ req' = [req EXCEPT ![r].pc = "done", ![r].response = 200]
    /\ UNCHANGED <<users, disk, classes_txt, pipe>>

\* Lines 105-122: status, result and trafficCounts of the activity, the log
\* entry and the response.  With one request served at a time nothing runs
\* between these statements.
ApproveWrite(r) ==
    /\ req[r].pc = "write"
    /\ activities' = [activities EXCEPT
          ![Held(r)].status = "approved",
          ![Held(r)].result = req[r].result,
          ![Held(r)].trafficCounts =
              [d \in DirSet |->
                  req[r].num_cars_list[CHOOSE i \in 1..4 : Directions[i] = d]]]
    /\ recent_activities' = Append(recent_activities,
          LogEntry("approved", req[r].aid, activities[Held(r)].userId))
    /\ req' = [req EXCEPT ![r].pc = "done", ![r].response = 200]
    /\ UNCHANGED <<users, disk, classes_txt, pipe>>

\* The response has gone out; the slot serves the next request.
Respond(r) ==
    /\ req[r].pc = "done"
    /\ req' = [req EXCEPT ![r] = Idle]
    /\ UNCHANGED <<activities, recent_activities, users, disk, classes_txt, pipe>>

\* The server handling one request at a time.
\* Vocabulary files the server is run with: one with "car", one without.
AppClassFiles == {<<"person", "car">>, <<"person">>}

Init ==
    /\ classes_txt \in AppClassFiles
    /\ PipeInit
    /\ AppInit
    /\ req = [r \in {"r1"} |-> Idle]

Next ==
    \/ \E r \in DOMAIN req : Upload(r)
    \/ \E r \in DOMAIN req, activity_id \in 1..(MaxActs + 1) :
          ApproveBegin(r, activity_id)
    \/ \E r \in DOMAIN req, run \in Runs[classes_txt] : ApproveDetect(r, run)
    \/ \E r \in DOMAIN req : ApproveOptimize(r)
    \/ \E r \in DOMAIN req : ApproveWrite(r)
    \/ \E r \in DOMAIN req : Respond(r)

Spec == Init /\ [][Next]_vars

\* ======================================================================
\* Properties of the directional pipeline
\* ======================================================================
Range(s) == {s[k] : k \in 1..Len(s)}

\* C1 (as claimed): after each observation every retained sample is no
\* older than 30 seconds before the most recently observed timestamp,
\* whatever the order of the timestamps.
C1_WindowBound ==
    \A k \in 1..Len(car_counts) : car_counts[k][1] >= current_time - Window

\* C2 (as claimed): a run that opened its capture has released it when
\* detect_cars returns, on the success path and on the failure path.
C2_ReleasedOnEveryExit ==
    d_pc = "returned" => cap # "open"

\* Indices strictly greater than both neighbours.
StrictPeakSet(x) ==
    {i \in 1..(Len(x) - 2) : At(x, i) > At(x, i - 1) /\ At(x, i) > At(x, i + 1)}

\* Maximal runs l..r of equal values, inside the sequence, with a strictly
\* smaller value right before and right after; the peak is the middle of
\* the run, rounded down.
PlateauPeakSet(x) ==
    {(l + r) \div 2 : <<l, r>> \in
        {lr \in (1..(Len(x) - 2)) \X (1..(Len(x) - 2)) :
            /\ lr[1] <= lr[2]
            /\ \A j \in lr[1]..lr[2] : At(x, j) = At(x, lr[1])
            /\ At(x, lr[1] - 1) < At(x, lr[1])
            /\ At(x, lr[2] + 1) < At(x, lr[2])}}

Estimated == d_pc \in {"release", "returned"}

Ascending(s) == \A j, k \in 1..Len(s) : j < k => s[j] < s[k]

NonDecreasing(x) == \A k \in 1..(Len(x) - 1) : x[k] <= x[k + 1]
NonIncreasing(x) == \A k \in 1..(Len(x) - 1) : x[k] >= x[k + 1]

\* C5: a finalized count sequence of fewer than 3 samples, or a monotonic
\* or constant one, gives the metric 0 and the run returns it (no failure).
C5_DegenerateIsZero ==
    LET x == CountValues(car_counts) IN
    (Estimated /\ (Len(x) < 3 \/ NonDecreasing(x) \/ NonIncreasing(x))) =>
        /\ mean_peak_value = Zero
        /\ exc = "none"
        /\ (d_pc = "returned" => ret = Zero /\ ret # Sentinel)

C5_Witness ==
    /\ d_pc = "returned"
    /\ car_count_values = <<1, 2, 3, 4, 5>>
    /\ ret = Zero

SumOver(x, S) == SumSeq([k \in 1..Len(x) |-> IF (k - 1) \in S THEN x[k] ELSE 0])

C7_FailureReturnsSentinel ==
    /\ d_pc # "propagated"
    /\ (d_pc = "returned" /\ cap = "closed") => ret = Sentinel
    /\ (d_pc = "returned" /\ exc # "none") => ret = Sentinel

C7_Witness ==
    /\ d_pc = "returned"
    /\ cap = "open"
    /\ frame_counter > 0
    /\ exc = "cv.error"
    /\ ret = Sentinel

\* ======================================================================
\* Properties of the coordinator (approve_activity)
\* ======================================================================
NonNegative(m) == m.den > 0 /\ m.num >= 0

\* C3 (as claimed): with a vocabulary that lacks "car", no capture is
\* opened, no estimate (not even -1) comes back to the coordinator, no
\* trafficCounts are stored and no activity becomes approved.
C3_NoCarNothingProduced ==
    ~HasCar(classes_txt) =>
        /\ \A r \in DOMAIN req :
              /\ req[r].num_cars_list = << >>
              /\ \A i \in 1..Len(req[r].runs) : ~req[r].runs[i].opened
        /\ \A k \in 1..Len(activities) :
              /\ activities[k].trafficCounts = NoCounts
              /\ activities[k].status # "approved"

\* C8: in the FlowReport handed to the optimizer, and while it is being
\* filled, a direction is -1 exactly when its pipeline failed and is a
\* non-negative metric otherwise; a failing direction does not end the
\* request (only the optimizer can), so all four directions are filled.
C8_FailureIsolated ==
    \A r \in DOMAIN req :
        /\ req[r].pc \in {"detect", "optimize"} =>
              /\ Len(req[r].runs) = Len(req[r].num_cars_list)
              /\ \A i \in 1..Len(req[r].runs) :
                    /\ req[r].runs[i].fails <=> req[r].num_cars_list[i] = Sentinel
                    /\ ~req[r].runs[i].fails => NonNegative(req[r].num_cars_list[i])
        /\ req[r].pc = "optimize" => Len(req[r].num_cars_list) = 4
        /\ (req[r].pc = "done" /\ req[r].response = 500) =>
              Len(req[r].num_cars_list) = 4

C8_Witness ==
    \E r \in DOMAIN req :
        /\ req[r].pc = "optimize"
        /\ req[r].runs[2].fails
        /\ \A i \in {1, 3, 4} : ~req[r].runs[i].fails
        /\ req[r].num_cars_list = <<Rat(1, 1), Sentinel, Zero, Rat(1, 1)>>

\* C9: when all four videos open and no frame of any of them has a car
\* detected, the FlowReport is 0 on all four directions.
C9_ZeroDetectionsIsZero ==
    \A r \in DOMAIN req :
        req[r].pc \in {"detect", "optimize"} =>
            \A i \in 1..Len(req[r].runs) :
                (req[r].runs[i].opened /\ req[r].runs[i].zero) =>
                    /\ req[r].num_cars_list[i] = Zero
                    /\ req[r].num_cars_list[i] # Sentinel

C9_Witness ==
    \E r \in DOMAIN req :
        /\ req[r].pc = "optimize"
        /\ \A i \in 1..4 : req[r].runs[i].opened /\ req[r].runs[i].zero
        /\ req[r].num_cars_list = <<Zero, Zero, Zero, Zero>>

\* C10: when the optimizer fails, the caller gets the error and the
\* activity stays pending with result and trafficCounts unset and no
\* approval entry in recent_activities.
C10_OptimizerFailureKeepsPending ==
    \A r \in DOMAIN req :
        (req[r].op = "approve" /\ req[r].pc = "done" /\ req[r].response = 500) =>
            /\ \A k \in 1..Len(activities) :
                  activities[k].id = req[r].aid =>
                      /\ activities[k].status = "pending"
                      /\ activities[k].result = "None"
                      /\ activities[k].trafficCounts = NoCounts
            /\ \A k \in 1..Len(recent_activities) :
                  ~(/\ recent_activities[k].action = "approved"
                    /\ recent_activities[k].aid = req[r].aid)

C10_Witness ==
    \E r \in DOMAIN req :
        /\ req[r].op = "approve"
        /\ req[r].pc = "done"
        /\ req[r].response = 500
        /\ Len(req[r].num_cars_list) = 4
        /\ \E k \in 1..Len(activities) :
              activities[k].id = req[r].aid /\ activities[k].status = "pending"

\* ======================================================================
\* Further properties of the directional pipeline
\* ======================================================================
IsSuffix(s, t) ==
    /\ Len(s) <= Len(t)
    /\ s = SubSeq(t, Len(t) - Len(s) + 1, Len(t))

\* C11: an observation leaves in the window a contiguous suffix, in
\* insertion order, of the old window followed by the new sample (samples
\* go from the oldest end only), the new sample is always retained, and
\* the count sequence of peak estimation lists the retained counts in
\* insertion order.
C11_OldestEndOnly ==
    [][/\ (d_pc = "detect" /\ d_pc' = "read") =>
             /\ car_counts' # << >>
             /\ car_counts'[Len(car_counts')][1] = current_time'
             /\ IsSuffix(car_counts',
                         Append(car_counts, car_counts'[Len(car_counts')]))
       /\ (d_pc = "estimate" /\ d_pc' = "release") =>
             /\ Len(car_count_values') = Len(car_counts)
             /\ \A k \in 1..Len(car_counts) :
                   car_count_values'[k] = car_counts[k][2]
      ]_vars

C11_Witness ==
    /\ d_pc = "release"
    /\ frame_counter = 3
    /\ Len(car_counts) = 2
    /\ car_counts[1][1] < car_counts[2][1]
    /\ car_count_values = <<car_counts[1][2], car_counts[2][2]>>

\* C14: detect_cars returns -1 exactly when an exception was raised in the
\* run; a run without failure returns a value >= 0.
C14_SentinelIffFailure ==
    d_pc = "returned" =>
        /\ (ret = Sentinel <=> exc # "none")
        /\ (exc = "none" => ret.den > 0 /\ ret.num >= 0)

C14_Witness ==
    /\ d_pc = "returned"
    /\ exc = "none"
    /\ car_count_values = <<0, 2, 1>>
    /\ ret = Rat(2, 1)

\* ======================================================================
\* Further properties of the handlers, one request at a time
\* ======================================================================
\* C13: the i-th uploaded video is stored as the i-th direction's file,
\* the i-th call of detect_cars is given that file, the optimizer is called
\* with the four returned values in that order, and after a successful
\* approval trafficCounts[d] is the value returned for d's file and the
\* stored result is the value the optimizer returned.
C13_VerbatimReport ==
    /\ \A f \in disk : f[2] = Directions[f[3]]
    /\ \A r \in DOMAIN req :
          /\ req[r].pc \in {"detect", "optimize"} =>
                \A i \in 1..Len(req[r].runs) :
                    /\ req[r].runs[i].path = Directions[i]
                    /\ req[r].runs[i].src = i
          /\ req[r].pc = "write" =>
                /\ Len(req[r].num_cars_list) = 4
                /\ req[r].opt_arg = req[r].num_cars_list
                /\ req[r].result \in Plans
          /\ (req[r].op = "approve" /\ req[r].pc = "done"
                /\ req[r].response = 200) =>
                \A k \in 1..Len(activities) :
                    activities[k].id = req[r].aid =>
                        /\ activities[k].result = req[r].result
                        /\ req[r].opt_arg = req[r].num_cars_list
                        /\ \A i \in 1..4 :
                              activities[k].trafficCounts[Directions[i]]
                                  = req[r].num_cars_list[i]

C13_Witness ==
    \E r \in DOMAIN req :
        /\ req[r].op = "approve"
        /\ req[r].pc = "done"
        /\ req[r].response = 200
        /\ req[r].num_cars_list = <<Rat(1, 1), Zero, Sentinel, Rat(1, 1)>>
        /\ req[r].result = "plan_b"
        /\ \E k \in 1..Len(activities) :
              /\ activities[k].id = req[r].aid
              /\ activities[k].trafficCounts.east = Sentinel
              /\ activities[k].result = "plan_b"

\* The upload request passes every check of upload_files.
Accepted(u) ==
    /\ u.has_videos
    /\ u.has_user
    /\ Len(u.videos) = 4
    /\ \A i \in 1..4 :
          /\ u.videos[i] # << >>
          /\ Len(u.videos[i]) >= 2
          /\ Lower(u.videos[i][Len(u.videos[i])]) \in {"mp4", "avi", "mov"}

\* C18: an upload answered with an error leaves activities, users,
\* recent_activities and the files on disk as they were; an upload is
\* answered with an error exactly when it is not accepted; and an activity
\* is only ever added by an accepted upload, as pending with result and
\* trafficCounts unset.
C18_RejectedUploadChangesNothing ==
    [][/\ \A r \in DOMAIN req :
             (req[r].pc = "idle" /\ req'[r].op = "upload") =>
                 /\ req'[r].response \in {201, 400}
                 /\ req'[r].response = 201 <=> Accepted(req'[r].upload)
                 /\ req'[r].response = 400 =>
                       UNCHANGED <<activities, users, recent_activities, disk>>
       /\ Len(activities') > Len(activities) =>
             /\ \E r \in DOMAIN req :
                   /\ req[r].pc = "idle"
                   /\ req'[r].op = "upload"
                   /\ req'[r].response = 201
                   /\ Accepted(req'[r].upload)
             /\ Len(activities') = Len(activities) + 1
             /\ SubSeq(activities', 1, Len(activities)) = activities
             /\ activities'[Len(activities')].status = "pending"
             /\ activities'[Len(activities')].result = "None"
             /\ activities'[Len(activities')].trafficCounts = NoCounts
      ]_vars

C18_Witness ==
    \E r \in DOMAIN req :
        /\ req[r].op = "upload"
        /\ req[r].response = 400
        /\ req[r].upload.has_videos
        /\ req[r].upload.has_user
        /\ Len(req[r].upload.videos) = 4
        /\ FirstBad(req[r].upload.videos) = 3
        /\ Len(activities) = 1
        /\ Cardinality(disk) = 4

\* ======================================================================
\* The handlers running concurrently (the development server serves each
\* request in its own thread): statement by statement, two requests at a
\* time, on one uploaded activity
\* ======================================================================
ConcIds == {1, 2}       \* the id of the uploaded activity and an unknown id

\* The videos of the concurrent runs: one that cannot be opened and one
\* without frames.
ConcInputs ==
    {[model_ok |-> TRUE, openable |-> FALSE, frames |-> << >>],
     [model_ok |-> TRUE, openable |-> TRUE, frames |-> << >>]}

ConcRuns == {RunOf(<<"person", "car">>, in) : in \in ConcInputs}

\* Line 106: activity["status"] = "approved"
ApproveSetStatus(r) ==
    /\ req[r].op = "approve"
    /\ req[r].pc = "write"
    /\ activities' = [activities EXCEPT ![Held(r)].status = "approved"]
    /\ req' = [req EXCEPT ![r].pc = "set_result"]
    /\ UNCHANGED <<recent_activities, users, disk, classes_txt, pipe>>

\* Line 107: activity["result"] = result
ApproveSetResult(r) ==
    /\ req[r].pc = "set_result"
    /\ activities' = [activities EXCEPT ![Held(r)].result = req[r].result]
    /\ req' = [req EXCEPT ![r].pc = "set_counts"]
    /\ UNCHANGED <<recent_activities, users, disk, classes_txt, pipe>>

\* Lines 108-113: the dict is built and then bound to the key in one store.
ApproveSetCounts(r) ==
    /\ req[r].pc = "set_counts"
    /\ activities' = [activities EXCEPT ![Held(r)].trafficCounts =
          [north |-> req[r].num_cars_list[1],
           south |-> req[r].num_cars_list[2],
           east  |-> req[r].num_cars_list[3],
           west  |-> req[r].num_cars_list[4]]]
    /\ req' = [req EXCEPT ![r].pc = "log"]
    /\ UNCHANGED <<recent_activities, users, disk, classes_txt, pipe>>

\* Lines 116-122: the log entry and the response.
ApproveLog(r) ==
    /\ req[r].pc = "log"
    /\ recent_activities' = Append(recent_activities,
          LogEntry("approved", req[r].aid, activities[Held(r)].userId))
    /\ req' = [req EXCEPT ![r].pc = "done", ![r].response = 200]
    /\ UNCHANGED <<activities, users, disk, classes_txt, pipe>>

\* reject_activity, lines 128-129 and 140: look for the pending activity.
RejectBegin(r, activity_id) ==
    /\ req[r].pc = "idle"
    /\ req' = [req EXCEPT ![r] =
          IF FirstPending(activity_id) # 0
          THEN [Idle EXCEPT !.op = "reject", !.aid = activity_id,
                            !.pc = "set_rejected"]
          ELSE [Idle EXCEPT !.op = "reject", !.aid = activity_id,
                            !.pc = "done", !.response = 404]]
    /\ UNCHANGED <<activities, recent_activities, users, disk, classes_txt, pipe>>

\* Line 130: activity["status"] = "rejected"
RejectSetStatus(r) ==
    /\ req[r].pc = "set_rejected"
    /\ activities' = [activities EXCEPT ![Held(r)].status = "rejected"]
    /\ req' = [req EXCEPT ![r].pc = "reject_log"]
    /\ UNCHANGED <<recent_activities, users, disk, classes_txt, pipe>>

\* Lines 133-139: the log entry and the response.
RejectLog(r) ==
    /\ req[r].pc = "reject_log"
    /\ recent_activities' = Append(recent_activities,
          LogEntry("rejected", req[r].aid, activities[Held(r)].userId))
    /\ req' = [req EXCEPT ![r].pc = "done", ![r].response = 200]
    /\ UNCHANGED <<activities, users, disk, classes_txt, pipe>>

\* get_results, lines 142-151: the status, and the result if the activity is
\* approved and its result is truthy ("absent": the key is not in the body).
GetResults(r, activity_id) ==
    LET S == {k \in 1..Len(activities) : activities[k].id = activity_id}
        a == activities[CHOOSE k \in S : \A j \in S : k <= j]
    IN
    /\ req[r].pc = "idle"
    /\ req' = [req EXCEPT ![r] =
          IF S = {}
          THEN [Idle EXCEPT !.op = "results", !.aid = activity_id,
                            !.pc = "done", !.response = 404]
          ELSE [Idle EXCEPT !.op = "results", !.aid = activity_id,
                            !.pc = "done", !.response = 200,
                            !.body = <<[status |-> a.status,
                                        result |->
                                          IF a.status = "approved"
                                             /\ a.result # "None"
                                          THEN a.result ELSE "absent"]>>]]
    /\ UNCHANGED <<activities, recent_activities, users, disk, classes_txt, pipe>>

\* get_reports, lines 177-199: an entry for every activity that is approved
\* and has a truthy result; the trafficCounts key exists since the upload, so
\* activity.get returns what is stored under it.
ReportEntry(a) ==
    [id |-> a.id, userId |-> a.userId, trafficCounts |-> a.trafficCounts,
     signalTimings |-> a.result]

GetReports(r) ==
    /\ req[r].pc = "idle"
    /\ req' = [req EXCEPT ![r] =
          [Idle EXCEPT !.op = "reports", !.pc = "done", !.response = 200,
                       !.body =
              LET Pick(a) == a.status = "approved" /\ a.result # "None"
                  sel == SelectSeq(activities, Pick)
              IN  [i \in 1..Len(sel) |-> ReportEntry(sel[i])]]]
    /\ UNCHANGED <<activities, recent_activities, users, disk, classes_txt, pipe>>

\* One activity has been uploaded by u1; two requests can be in progress.
InitConc ==
    /\ classes_txt = <<"person", "car">>
    /\ PipeInit
    /\ activities = <<[id |-> 1, userId |-> "u1", status |-> "pending",
                       result |-> "None", trafficCounts |-> NoCounts]>>
    /\ recent_activities = <<LogEntry("uploaded", 1, "u1")>>
    /\ users = {"u1"}
    /\ disk = Saved(1, 5)
    /\ req = [r \in {"r1", "r2"} |-> Idle]

NextConc ==
    \/ \E r \in DOMAIN req, aid \in ConcIds : ApproveBegin(r, aid)
    \/ \E r \in DOMAIN req, run \in ConcRuns : ApproveDetect(r, run)
    \/ \E r \in DOMAIN req : ApproveOptimize(r)
    \/ \E r \in DOMAIN req : ApproveSetStatus(r)
    \/ \E r \in DOMAIN req : ApproveSetResult(r)
    \/ \E r \in DOMAIN req : ApproveSetCounts(r)
    \/ \E r \in DOMAIN req : ApproveLog(r)
    \/ \E r \in DOMAIN req, aid \in ConcIds : RejectBegin(r, aid)
    \/ \E r \in DOMAIN req : RejectSetStatus(r)
    \/ \E r \in DOMAIN req : RejectLog(r)
    \/ \E r \in DOMAIN req, aid \in ConcIds : GetResults(r, aid)
    \/ \E r \in DOMAIN req : GetReports(r)
    \/ \E r \in DOMAIN req : Respond(r)

SpecConc == InitConc /\ [][NextConc]_vars

\* What holds of the approvals in progress and of the stored counts.
BarrierState ==
    /\ \A r \in DOMAIN req :
          req[r].op = "approve" =>
              /\ Len(req[r].num_cars_list) <= 4
              /\ req[r].pc \in {"detect", "optimize"} =>
                    /\ Len(req[r].runs) = Len(req[r].num_cars_list)
                    /\ \A i \in 1..Len(req[r].runs) :
                          req[r].runs[i].path = Directions[i]
              /\ req[r].pc = "detect" => req[r].opt_arg = << >>
              /\ req[r].pc = "optimize" => Len(req[r].num_cars_list) = 4
              /\ req[r].opt_arg # << >> =>
                    /\ Len(req[r].opt_arg) = 4
                    /\ req[r].opt_arg = req[r].num_cars_list
    /\ \A k \in 1..Len(activities) :
          \/ activities[k].trafficCounts = NoCounts
          \/ \A d \in DirSet : activities[k].trafficCounts[d] # None

\* C12: an approval runs one pipeline per direction, in the order of the
\* directions and without running a direction again; the optimizer is given
\* the list only when all four values are there; the trafficCounts of an
\* activity are either unset or set for all four directions; and they are
\* stored by a request that has run all four pipelines and the optimizer.
C12_SingleBarrier ==
    [][/\ BarrierState'
       /\ \A k \in 1..Len(activities) :
             activities'[k].trafficCounts # activities[k].trafficCounts =>
                 \E r \in DOMAIN req :
                     /\ req[r].op = "approve"
                     /\ req[r].aid = activities[k].id
                     /\ Len(req[r].num_cars_list) = 4
                     /\ req[r].opt_arg = req[r].num_cars_list
                     /\ req[r].result \in Plans
                     /\ \A i \in 1..4 :
                           activities'[k].trafficCounts[Directions[i]]
                               = req[r].num_cars_list[i]
      ]_vars

C12_Witness ==
    \E r \in DOMAIN req :
        /\ req[r].pc = "optimize"
        /\ req[r].num_cars_list = <<Zero, Sentinel, Zero, Sentinel>>
        /\ Len(req[r].runs) = 4
        /\ activities[1].trafficCounts = NoCounts

\* C15: a status that is no longer pending never changes again.
C15_StatusFinal ==
    [][\A k \in 1..Len(activities) :
          activities[k].status # "pending" =>
              activities'[k].status = activities[k].status]_vars

\* The approve requests that are past the pending check for this activity.
Processing(aid) ==
    {r \in DOMAIN req :
        /\ req[r].op = "approve"
        /\ req[r].aid = aid
        /\ req[r].pc \in {"detect", "optimize", "write", "set_result",
                          "set_counts", "log"}}

\* C16: at most one approve request is processing an activity, and the log
\* has at most one approval entry for it.
C16_ApprovedAtMostOnce ==
    \A aid \in ConcIds :
        /\ Cardinality(Processing(aid)) <= 1
        /\ Cardinality({i \in 1..Len(recent_activities) :
                           /\ recent_activities[i].action = "approved"
                           /\ recent_activities[i].aid = aid}) <= 1

\* C17: an approved activity has its result and all four trafficCounts set,
\* and every entry a get_reports response carries has them too.
C17_NoHalfWrittenApproval ==
    /\ \A k \in 1..Len(activities) :
          activities[k].status = "approved" =>
              /\ activities[k].result # "None"
              /\ \A d \in DirSet : activities[k].trafficCounts[d] # None
    /\ \A r \in DOMAIN req :
          (req[r].op = "reports" /\ req[r].pc = "done") =>
              \A i \in 1..Len(req[r].body) :
                  /\ req[r].body[i].signalTimings # "None"
                  /\ \A d \in DirSet : req[r].body[i].trafficCounts[d] # None

\* ======================================================================
\* An approval with its four runs of detect_cars taken step by step
\* ======================================================================
\* Line 102: the next call of detect_cars begins.
CallDetect(r) ==
    /\ req[r].pc = "detect"
    /\ Len(req[r].num_cars_list) < 4
    /\ d_pc = "start"
    /\ req' = [req EXCEPT ![r].pc = "calling"]
    /\ UNCHANGED <<activities, recent_activities, users, disk, classes_txt, pipe>>

\* Line 102: the call has returned and its value joins the list, or it has
\* let an exception out, which ends the request.  The locals of the call
\* are gone.
CollectDetect(r) ==
    /\ req[r].pc = "calling"
    /\ d_pc \in {"returned", "propagated"}
    /\ req' = IF d_pc = "propagated"
              THEN [req EXCEPT ![r].pc = "done", ![r].response = 500]
              ELSE [req EXCEPT
                      ![r].num_cars_list = Append(@, ret),
                      ![r].pc = IF Len(req[r].num_cars_list) = 3
                                THEN "optimize" ELSE "detect"]
    /\ d_pc' = "start"
    /\ class_name' = << >>
    /\ backend' = "none"
    /\ cap' = "none"
    /\ frame_counter' = 0
    /\ car_counts' = << >>
    /\ current_time' = 0
    /\ car_count_values' = << >>
    /\ peaks' = << >>
    /\ mean_peak_value' = None
    /\ exc' = "none"
    /\ ret' = None
    /\ UNCHANGED <<activities, recent_activities, users, disk, classes_txt>>

\* The videos of these runs: at most one car in a frame, and frames that
\* come faster than the clock ticks.
Quiet ==
    /\ current_time' = current_time
    /\ \A k \in 1..Len(car_counts') : car_counts'[k][2] <= 1

\* A step of detect_cars on behalf of the request that called it.
Called(step) ==
    /\ \E r \in DOMAIN req : req[r].pc = "calling"
    /\ step
    /\ Quiet

\* One activity has been uploaded by u1; requests are served one at a time.
InitLive ==
    /\ classes_txt = <<"person", "car">>
    /\ PipeInit
    /\ activities = <<[id |-> 1, userId |-> "u1", status |-> "pending",
                       result |-> "None", trafficCounts |-> NoCounts]>>
    /\ recent_activities = <<LogEntry("uploaded", 1, "u1")>>
    /\ users = {"u1"}
    /\ disk = Saved(1, 5)
    /\ req = [r \in {"r1"} |-> Idle]

\* What the thread serving a request does once the request is accepted.
Progress ==
    \/ \E r \in DOMAIN req : CallDetect(r)
    \/ Called(LoadClasses)
    \/ Called(LoadModel)
    \/ Called(OpenVideo)
    \/ Called(ReadFrame)
    \/ Called(DetectFrame)
    \/ Called(Estimate)
    \/ Called(ReleaseAndReturn)
    \/ Called(Except)
    \/ \E r \in DOMAIN req : CollectDetect(r)
    \/ \E r \in DOMAIN req : ApproveOptimize(r)
    \/ \E r \in DOMAIN req : ApproveWrite(r)

NextLive ==
    \/ \E r \in DOMAIN req : ApproveBegin(r, 1)
    \/ Progress
    \/ \E r \in DOMAIN req : Respond(r)

\* The thread of a request keeps running until the request is answered.
SpecLive == InitLive /\ [][NextLive]_vars /\ WF_vars(Progress)

\* C19: a call of detect_cars ends, with a metric or with -1; an approve
\* request that found the activity pending ends, with the activity approved
\* unless the optimizer raised; and the frame loop is left only for the
\* estimate (the stream is exhausted) or for the except clause (a failure).
C19_Terminates ==
    /\ \A r \in {"r1"} :
          /\ (req[r].pc = "calling") ~>
                (d_pc = "returned" /\ (ret = Sentinel \/ ret.den > 0))
          /\ (req[r].op = "approve" /\ req[r].pc = "detect") ~>
                /\ req[r].pc = "done"
                /\ \/ /\ req[r].response = 200
                      /\ activities[1].status = "approved"
                   \/ /\ req[r].response = 500
                      /\ req[r].opt_arg # << >>
          /\ (req[r].pc = "write") ~>
                /\ req[r].pc = "done"
                /\ req[r].response = 200
                /\ activities[1].status = "approved"
    /\ [][/\ (d_pc \in {"read", "detect"} /\ d_pc' \notin {"read", "detect"})
               => \/ d_pc = "read" /\ d_pc' = "estimate" /\ exc' = "none"
                  \/ d_pc' = "except" /\ exc' # "none"
         ]_vars

C19_Witness ==
    \E r \in DOMAIN req :
        /\ req[r].op = "approve"
        /\ req[r].pc = "done"
        /\ req[r].response = 200
        /\ req[r].num_cars_list = <<Rat(1, 1), Sentinel, Zero, Rat(1, 1)>>
        /\ activities[1].status = "approved"
        /\ d_pc = "start"

====
